---- MODULE Spec2Model ----
(***************************************************************************)
(* Model of dht22.c: the DHT22 one-wire decoder (parseSensorOutput,        *)
(* querySensor, retrieveByte, sensorLowHighWait and the two priority       *)
(* setters).  The single calling thread is a program counter `pc`; the     *)
(* wall clock, the scheduler, the GPIO pin and the sensor on the line are  *)
(* the environment.  Times are microseconds; temperatures and humidities   *)
(* are kept in tenths (the code's double x/10.0 is the integer x here).    *)
(***************************************************************************)
EXTENDS Integers, Sequences, FiniteSets, TLC

(* ---------------------------------------------------------------------- *)
(* Program constants                                                      *)
(* ---------------------------------------------------------------------- *)
QUERYRETRIES == 4

WaitTimeoutUsec == 1000
WakeLowUsec == 10000
WakeHighUsec == 40
BitSampleUsec == 30
CooldownUsec == 2000000
SessionBudgetUsec == 16000
FifoPriorityMax == 99

\* dht22.h is not part of the sources: the ranges and the sentinel are taken
\* from the sensor's documented ranges, in tenths of a unit.
SENSOR_TMP_MIN == -400
SENSOR_TMP_MAX == 800
SENSOR_HUM_MIN == 0
SENSOR_HUM_MAX == 1000
SENSOR_NA == -9999

(* ---------------------------------------------------------------------- *)
(* Bounds of the environment                                              *)
(* ---------------------------------------------------------------------- *)
\* how many times per session the scheduler preempts the thread
MaxPreempt == 1
\* how many times per session the line is still at the old level when polled
MaxSlow == 1

\* lengths of a preemption
PreemptDeltas == {5000, 1000000}
\* clock advance seen by one modelled poll of a wait loop (a run of polls
\* during which neither the level nor the deadline test changes)
PollStepUsec == WaitTimeoutUsec \div 2 + 1
\* microsecond phases at which the call may start; from 989000 the first
\* session crosses a second boundary and its deadlines carry
StartPhases == {0, 989000}
\* delay(2000) may oversleep: it returns at the next multiple of this
CooldownGridUsec == 3 * CooldownUsec

\* frames the sensor may transmit: 5 bytes each
Frames ==
  << <<2, 140, 1, 8, 151>>,      \* 65.2 %, 26.4 deg, checksum good
     <<2, 140, 129, 8, 23>>,     \* sign bit set, checksum good (wraps)
     <<2, 140, 1, 8, 152>>,      \* checksum wrong
     <<3, 233, 1, 8, 245>>,      \* humidity 100.1 %, checksum good
     <<2, 140, 3, 33, 178>>,     \* temperature 80.1 deg, checksum good
     <<0, 200, 0, 200, 144>>,    \* raw 200 -> 20.0
     <<3, 232, 3, 32, 14>> >>    \* 100.0 %, 80.0 deg: upper range ends

FrameIds == 1..Len(Frames)

\* bit i (0..39) of frame f, most significant bit of each byte first
FrameBit(f, i) == (Frames[f][(i \div 8) + 1] \div (2 ^ (7 - (i % 8)))) % 2

(* ---------------------------------------------------------------------- *)
(* struct timeval and the timer macros                                    *)
(* ---------------------------------------------------------------------- *)
TV(t) == [sec |-> t \div 1000000, usec |-> t % 1000000]

ZeroTV == [sec |-> 0, usec |-> 0]

timeradd(a, b) ==
  IF a.usec + b.usec >= 1000000
  THEN [sec |-> a.sec + b.sec + 1, usec |-> a.usec + b.usec - 1000000]
  ELSE [sec |-> a.sec + b.sec, usec |-> a.usec + b.usec]

timersub(a, b) ==
  IF a.usec - b.usec < 0
  THEN [sec |-> a.sec - b.sec - 1, usec |-> a.usec - b.usec + 1000000]
  ELSE [sec |-> a.sec - b.sec, usec |-> a.usec - b.usec]

timercmpGT(a, b) ==
  IF a.sec = b.sec THEN a.usec > b.usec ELSE a.sec > b.sec

\* the 1 ms deadline of one sub-wait
Deadline(now) == timeradd(now, [sec |-> 0, usec |-> WaitTimeoutUsec])

(* ---------------------------------------------------------------------- *)
(* Pure parts of querySensor and parseSensorOutput                        *)
(* ---------------------------------------------------------------------- *)
ZeroData == [i \in 0..3 |-> 0]
ZeroBytes == [i \in 0..4 |-> 0]

\* mutant: = instead of +=
AddChecksum_Assign(c, b) == b % 256

\* uint8_t queryChecksum += b
AddChecksum(c, b) == (c + b) % 256

\* mutant: the seconds component is not looked at
TookTooLong_UsecOnly(t) == t.usec > SessionBudgetUsec

\* the elapsed-time test: TRUE when the session took too long
TookTooLong(t) == (t.sec # 0) \/ (t.usec > SessionBudgetUsec)

\* the value querySensor returns after the timing test
ChecksumMatches(c, bytes) == c = bytes[4]

SignBitSet(b) == (b \div 128) % 2 = 1

\* result.temperature, in tenths
ParseTemperature(sd) ==
  IF SignBitSet(sd[2]) THEN 0 - (sd[2] * 256 + sd[3]) ELSE sd[2] * 256 + sd[3]

\* mutant: the high byte is left out
ParseHumidity_LowByteOnly(sd) == sd[1]

\* result.humidity, in tenths
ParseHumidity(sd) == sd[0] * 256 + sd[1]

\* mutant: the upper humidity limit is not tested
WithinCapabilities_NoHumMax(t, h) ==
  /\ t >= SENSOR_TMP_MIN
  /\ t <= SENSOR_TMP_MAX
  /\ h >= SENSOR_HUM_MIN

\* line 240, in tenths
WithinCapabilities(t, h) ==
  /\ t >= SENSOR_TMP_MIN
  /\ t <= SENSOR_TMP_MAX
  /\ h >= SENSOR_HUM_MIN
  /\ h <= SENSOR_HUM_MAX

\* mutant: one retry too many
InitialRetries_OneMore == QUERYRETRIES + 2

\* line 221
InitialRetries == QUERYRETRIES + 1

(* ---------------------------------------------------------------------- *)
(* State                                                                  *)
(* ---------------------------------------------------------------------- *)
VARIABLES
  pc,             \* position of the thread
  clock,          \* wall clock, microseconds
  schedPolicy,    \* "OTHER" or "FIFO"
  schedPriority,  \* sched_priority in force
  pinModeV,       \* "INPUT" or "OUTPUT"
  lineOut,        \* level last written by the host: "LOW", "HIGH", "NONE"
  queryRetries,   \* parseSensorOutput: queryRetries
  sensorData,     \* parseSensorOutput: sensorData[4] (querySensor: results)
  result,         \* parseSensorOutput: result
  then,           \* querySensor: then
  took,           \* querySensor: took
  queryChecksum,  \* querySensor: queryChecksum
  retrievedBytes, \* querySensor: retrievedBytes[5]
  byte,           \* querySensor: loop index
  qret,           \* value returned by querySensor
  rbResult,       \* retrieveByte: result
  bit,            \* retrieveByte: loop index
  rbret,          \* value returned by retrieveByte
  caller,         \* who called sensorLowHighWait: "ack" or "bit"
  timeUp,         \* sensorLowHighWait: timeUp
  wret,           \* value returned by sensorLowHighWait
  frame,          \* sensor: frame being transmitted
  sent,           \* sensor: bits of the frame already sampled
  mode,           \* sensor: "ok", "stuckHigh", "stuckLow"
  slows,          \* environment: slow polls used
  preempts,       \* environment: preemptions used
  nSessions,      \* history: calls of querySensor so far
  nCooldowns,     \* history: calls of delay(2000) so far
  exitPath,       \* history: how the last querySensor returned
  waitFailed,     \* history: a transition wait of this session timed out
  ops,            \* history: what this querySensor call has done, in order
  samples,        \* history: levels sampled by this retrieveByte call
  nWaits,         \* history: calls of sensorLowHighWait in this session
  setupResult     \* history: the values wiringPiSetup has returned

vars == << pc, clock, schedPolicy, schedPriority, pinModeV,
           lineOut, queryRetries, sensorData, result, then, took,
           queryChecksum, retrievedBytes, byte, qret, rbResult, bit, rbret,
           caller, timeUp, wret, frame, sent, mode, slows, preempts,
           nSessions, nCooldowns, exitPath, waitFailed, ops, samples,
           nWaits, setupResult >>

schedVars == << schedPolicy, schedPriority >>
gpioVars == << pinModeV, lineOut >>
parseVars == << queryRetries, sensorData, result >>
queryVars == << then, took, queryChecksum, retrievedBytes, byte, qret >>
byteVars == << rbResult, bit, rbret >>
waitVars == << caller, timeUp, wret >>
sensorVars == << frame, sent, mode >>
histVars == << nSessions, nCooldowns, exitPath, waitFailed >>
traceVars == << ops, samples, nWaits, setupResult >>

UnsetResult == [temperature |-> 0, humidity |-> 0]

Init ==
  /\ pc = "setup"
  /\ clock \in StartPhases
  /\ schedPolicy = "OTHER"
  /\ schedPriority = 0
  /\ pinModeV = "INPUT"
  /\ lineOut = "NONE"
  /\ queryRetries = 0
  /\ sensorData = ZeroData
  /\ result = UnsetResult
  /\ then = ZeroTV
  /\ took = ZeroTV
  /\ queryChecksum = 0
  /\ retrievedBytes = ZeroBytes
  /\ byte = 0
  /\ qret = FALSE
  /\ rbResult = 0
  /\ bit = 0
  /\ rbret = 0
  /\ caller = "none"
  /\ timeUp = ZeroTV
  /\ wret = FALSE
  /\ frame = 1
  /\ sent = 0
  /\ mode = "ok"
  /\ slows = 0
  /\ preempts = 0
  /\ nSessions = 0
  /\ nCooldowns = 0
  /\ exitPath = "none"
  /\ waitFailed = FALSE
  /\ ops = << >>
  /\ samples = << >>
  /\ nWaits = 0
  /\ setupResult = << >>

(* ---------------------------------------------------------------------- *)
(* Environment: the passing of time                                       *)
(* ---------------------------------------------------------------------- *)
PreemptOptions == IF preempts < MaxPreempt THEN {0} \cup PreemptDeltas ELSE {0}

\* the step takes d microseconds, plus a preemption if the scheduler says so
Elapse(d) ==
  \E p \in PreemptOptions :
    /\ clock' = clock + d + p
    /\ preempts' = IF p = 0 THEN preempts ELSE preempts + 1

(* ---------------------------------------------------------------------- *)
(* Environment: the sensor on the line                                    *)
(* ---------------------------------------------------------------------- *)
\* the step now being taken contains a preemption
Preempted == preempts' # preempts

\* a responding sensor may fall silent, leaving the line at one level; a
\* session has slow edges or a silent sensor, not both
NextModes ==
  IF mode = "ok" /\ slows = 0 THEN {"ok", "stuckHigh", "stuckLow"} ELSE {mode}

\* The sensor during a step of the transmission phase.  A whole frame lasts
\* under 5 ms, so a preemption lets the rest of it go by unseen and the line
\* is back at its idle HIGH level afterwards; otherwise the mode is one of
\* `next`.  A silent sensor has no frame; `n` bits are sampled by the step.
Sensor(next, n) ==
  /\ mode' \in IF Preempted /\ mode = "ok" THEN {"stuckHigh"} ELSE next
  /\ frame' = IF mode' = "ok" THEN frame ELSE 1
  /\ sent' = IF mode' = "ok" THEN sent + n ELSE 0

\* a sensor that lets a 1 ms deadline pass at level `stay` transmits no more
TimedOut(stay) == IF mode = "ok" THEN {stay} ELSE {mode}

\* levels digitalRead may return while the code waits for the line to
\* leave `stay`; `go` is the other level
PollLevels(m, stay, go) ==
  CASE m = "stuckHigh" -> {"HIGH"}
    [] m = "stuckLow" -> {"LOW"}
    [] OTHER -> IF slows < MaxSlow THEN {stay, go} ELSE {go}

\* level digitalRead returns 30 us after the rising edge of a bit cell
SampleLevel(m) ==
  CASE m = "stuckHigh" -> "HIGH"
    [] m = "stuckLow" -> "LOW"
    [] OTHER -> IF FrameBit(frame, sent % 40) = 1 THEN "HIGH" ELSE "LOW"

(* ---------------------------------------------------------------------- *)
(* History of a session                                                   *)
(* ---------------------------------------------------------------------- *)
\* the step does `op`; nothing else of the history changes
Does(op) ==
  /\ ops' = Append(ops, op)
  /\ UNCHANGED << samples, nWaits, setupResult >>

\* the step calls sensorLowHighWait after doing `op`
DoesAndWaits(op) ==
  /\ ops' = Append(ops, op)
  /\ nWaits' = nWaits + 1
  /\ UNCHANGED << samples, setupResult >>

ByteOp(i) == << "byte0", "byte1", "byte2", "byte3", "byte4" >>[i + 1]

(* ---------------------------------------------------------------------- *)
(* setMaximumPriority, setDefaultPriority                                 *)
(* ---------------------------------------------------------------------- *)
\* The process is one that may change its scheduling policy (run without
\* that privilege, both calls leave the policy at SCHED_OTHER throughout).
setMaximumPriority ==
  /\ schedPolicy' = "FIFO"
  /\ schedPriority' = FifoPriorityMax

setDefaultPriority ==
  /\ schedPolicy' = "OTHER"
  /\ schedPriority' = 0

(* ---------------------------------------------------------------------- *)
(* sensorLowHighWait                                                      *)
(* ---------------------------------------------------------------------- *)
ReturnSite == IF caller = "ack" THEN "q_ackret" ELSE "rb_waitret"

\* lines 73-76: first 1 ms timer
W_Start1 ==
  /\ pc = "w_start1"
  /\ Elapse(0)
  /\ timeUp' = Deadline(TV(clock'))
  /\ Sensor(NextModes, 0)
  /\ pc' = "w_read1"
  /\ UNCHANGED << schedVars, gpioVars, parseVars, queryVars, byteVars,
                  caller, wret, slows, histVars >>
  /\ UNCHANGED traceVars

\* line 80: while (digitalRead(GPIO)==HIGH)
W_Read1 ==
  /\ pc = "w_read1"
  /\ Elapse(0)
  /\ Sensor({mode}, 0)
  /\ \E level \in PollLevels(mode', "HIGH", "LOW") :
       /\ pc' = IF level = "HIGH" THEN "w_check1" ELSE "w_start2"
       /\ slows' = IF mode' = "ok" /\ level = "HIGH" THEN slows + 1 ELSE slows
  /\ UNCHANGED << schedVars, gpioVars, parseVars, queryVars, byteVars,
                  waitVars, histVars >>
  /\ UNCHANGED traceVars

\* lines 81-86: read the clock, give up when the timer ran out
W_Check1 ==
  /\ pc = "w_check1"
  /\ Elapse(PollStepUsec)
  /\ IF timercmpGT(TV(clock'), timeUp)
     THEN /\ wret' = FALSE
          /\ waitFailed' = TRUE
          /\ pc' = ReturnSite
     ELSE /\ wret' = wret
          /\ waitFailed' = waitFailed
          /\ pc' = "w_read1"
  /\ Sensor(IF pc' = "w_read1" THEN {mode} ELSE TimedOut("stuckHigh"), 0)
  /\ UNCHANGED << schedVars, gpioVars, parseVars, queryVars, byteVars,
                  caller, timeUp, slows, nSessions, nCooldowns, exitPath >>
  /\ UNCHANGED traceVars

\* lines 90-93: second 1 ms timer
W_Start2 ==
  /\ pc = "w_start2"
  /\ Elapse(0)
  /\ timeUp' = Deadline(TV(clock'))
  /\ Sensor({mode}, 0)
  /\ pc' = "w_read2"
  /\ UNCHANGED << schedVars, gpioVars, parseVars, queryVars, byteVars,
                  caller, wret, slows, histVars >>
  /\ UNCHANGED traceVars

\* lines 96 and 106: while (digitalRead(GPIO)==LOW) ... return TRUE
W_Read2 ==
  /\ pc = "w_read2"
  /\ Elapse(0)
  /\ Sensor({mode}, 0)
  /\ \E level \in PollLevels(mode', "LOW", "HIGH") :
       /\ slows' = IF mode' = "ok" /\ level = "LOW" THEN slows + 1 ELSE slows
       /\ IF level = "LOW"
          THEN /\ pc' = "w_check2"
               /\ wret' = wret
          ELSE /\ pc' = ReturnSite
               /\ wret' = TRUE
  /\ UNCHANGED << schedVars, gpioVars, parseVars, queryVars, byteVars,
                  caller, timeUp, histVars >>
  /\ UNCHANGED traceVars

\* lines 97-102
W_Check2 ==
  /\ pc = "w_check2"
  /\ Elapse(PollStepUsec)
  /\ IF timercmpGT(TV(clock'), timeUp)
     THEN /\ wret' = FALSE
          /\ waitFailed' = TRUE
          /\ pc' = ReturnSite
     ELSE /\ wret' = wret
          /\ waitFailed' = waitFailed
          /\ pc' = "w_read2"
  /\ Sensor(IF pc' = "w_read2" THEN {mode} ELSE TimedOut("stuckLow"), 0)
  /\ UNCHANGED << schedVars, gpioVars, parseVars, queryVars, byteVars,
                  caller, timeUp, slows, nSessions, nCooldowns, exitPath >>
  /\ UNCHANGED traceVars

(* ---------------------------------------------------------------------- *)
(* retrieveByte                                                           *)
(* ---------------------------------------------------------------------- *)
\* line 111
RB_Begin ==
  /\ pc = "rb_begin"
  /\ rbResult' = 0
  /\ bit' = 0
  /\ pc' = "rb_loop"
  /\ UNCHANGED << clock, preempts, schedVars, gpioVars, parseVars, queryVars,
                  rbret, waitVars, sensorVars, slows, histVars >>
  /\ samples' = << >>
  /\ ops' = Append(ops, ByteOp(byte))
  /\ UNCHANGED << nWaits, setupResult >>

\* mutant: the loop of line 114 runs for nine bits
RB_Loop_NineBits ==
  /\ pc = "rb_loop"
  /\ IF bit < 9
     THEN /\ caller' = "bit"
          /\ pc' = "w_start1"
          /\ rbret' = rbret
     ELSE /\ caller' = caller
          /\ pc' = "q_store"
          /\ rbret' = rbResult
  /\ UNCHANGED << clock, preempts, schedVars, gpioVars, parseVars, queryVars,
                  rbResult, bit, timeUp, wret, sensorVars, slows, histVars >>
  /\ nWaits' = IF bit < 9 THEN nWaits + 1 ELSE nWaits
  /\ UNCHANGED << ops, samples, setupResult >>

\* lines 114-116 and 134: loop test, call of the wait, return of the byte
RB_Loop ==
  /\ pc = "rb_loop"
  /\ IF bit < 8
     THEN /\ caller' = "bit"
          /\ pc' = "w_start1"
          /\ rbret' = rbret
     ELSE /\ caller' = caller
          /\ pc' = "q_store"
          /\ rbret' = rbResult
  /\ UNCHANGED << clock, preempts, schedVars, gpioVars, parseVars, queryVars,
                  rbResult, bit, timeUp, wret, sensorVars, slows, histVars >>
  /\ nWaits' = IF bit < 8 THEN nWaits + 1 ELSE nWaits
  /\ UNCHANGED << ops, samples, setupResult >>

\* lines 116-118: a failed wait ends the byte with 0
RB_WaitRet ==
  /\ pc = "rb_waitret"
  /\ IF ~wret
     THEN /\ rbret' = 0
          /\ pc' = "q_store"
     ELSE /\ rbret' = rbret
          /\ pc' = "rb_delay"
  /\ UNCHANGED << clock, preempts, schedVars, gpioVars, parseVars, queryVars,
                  rbResult, bit, waitVars, sensorVars, slows, histVars >>
  /\ UNCHANGED traceVars

\* line 121: delayMicroseconds(30)
RB_Delay ==
  /\ pc = "rb_delay"
  /\ Elapse(BitSampleUsec)
  /\ Sensor({mode}, 0)
  /\ pc' = "rb_sample"
  /\ UNCHANGED << schedVars, gpioVars, parseVars, queryVars, byteVars,
                  waitVars, slows, histVars >>
  /\ UNCHANGED traceVars

\* mutant: the sampled level enters at the top, least significant bit first
ShiftIn_LsbFirst(r, level) ==
  (r \div 2) + (IF level = "HIGH" THEN 128 ELSE 0)

\* uint8_t result <<= 1, then |= 1 when the line is HIGH
ShiftIn(r, level) == ((r * 2) % 256) + (IF level = "HIGH" THEN 1 ELSE 0)

\* lines 124-130 and the ++bit of line 114
RB_Sample ==
  /\ pc = "rb_sample"
  /\ Elapse(0)
  /\ Sensor({mode}, 1)
  /\ rbResult' = ShiftIn(rbResult, SampleLevel(mode'))
  /\ bit' = bit + 1
  /\ pc' = "rb_loop"
  /\ UNCHANGED << schedVars, gpioVars, parseVars, queryVars, rbret,
                  waitVars, slows, histVars >>
  /\ samples' = Append(samples, SampleLevel(mode'))
  /\ UNCHANGED << ops, nWaits, setupResult >>

(* ---------------------------------------------------------------------- *)
(* querySensor                                                            *)
(* ---------------------------------------------------------------------- *)
\* lines 140-143: locals, then setMaximumPriority()
Q_SetMax ==
  /\ pc = "q_setmax"
  /\ setMaximumPriority
  /\ queryChecksum' = 0
  /\ nSessions' = nSessions + 1
  /\ exitPath' = "none"
  /\ waitFailed' = FALSE
  /\ pc' = "q_then"
  /\ UNCHANGED << clock, preempts, gpioVars, parseVars, then, took,
                  retrievedBytes, byte, qret, byteVars, waitVars, sensorVars,
                  slows, nCooldowns >>
  /\ ops' = << "elevate" >>
  /\ nWaits' = 0
  /\ UNCHANGED << samples, setupResult >>

\* line 146: gettimeofday(&then)
Q_Then ==
  /\ pc = "q_then"
  /\ then' = TV(clock)
  /\ pc' = "q_output"
  /\ UNCHANGED << clock, preempts, schedVars, gpioVars, parseVars, took,
                  queryChecksum, retrievedBytes, byte, qret, byteVars,
                  waitVars, sensorVars, slows, histVars >>
  /\ Does("timestamp")

\* line 149: pinMode(GPIO, OUTPUT)
Q_PinOutput ==
  /\ pc = "q_output"
  /\ pinModeV' = "OUTPUT"
  /\ pc' = "q_low"
  /\ UNCHANGED << clock, preempts, schedVars, lineOut, parseVars, queryVars,
                  byteVars, waitVars, sensorVars, slows, histVars >>
  /\ Does("output")

\* mutant: the delay(10) of line 153 is missing
Q_WriteLow_NoDelay ==
  /\ pc = "q_low"
  /\ lineOut' = "LOW"
  /\ frame' \in FrameIds
  /\ sent' = 0
  /\ mode' = "ok"
  /\ pc' = "q_high"
  /\ Does("low")
  /\ UNCHANGED << clock, preempts, schedVars, pinModeV, parseVars, queryVars,
                  byteVars, waitVars, slows, histVars >>

\* line 152: digitalWrite(GPIO, LOW); the sensor wakes and latches a frame
Q_WriteLow ==
  /\ pc = "q_low"
  /\ lineOut' = "LOW"
  /\ frame' \in FrameIds
  /\ sent' = 0
  /\ mode' = "ok"
  /\ pc' = "q_delay10"
  /\ UNCHANGED << clock, preempts, schedVars, pinModeV, parseVars, queryVars,
                  byteVars, waitVars, slows, histVars >>
  /\ Does("low")

\* line 153: delay(10)
Q_Delay10 ==
  /\ pc = "q_delay10"
  /\ Elapse(WakeLowUsec)
  /\ pc' = "q_high"
  /\ UNCHANGED << schedVars, gpioVars, parseVars, queryVars, byteVars,
                  waitVars, sensorVars, slows, histVars >>
  /\ Does("delay10")

\* line 156: digitalWrite(GPIO, HIGH)
Q_WriteHigh ==
  /\ pc = "q_high"
  /\ lineOut' = "HIGH"
  /\ pc' = "q_delay40"
  /\ UNCHANGED << clock, preempts, schedVars, pinModeV, parseVars, queryVars,
                  byteVars, waitVars, sensorVars, slows, histVars >>
  /\ Does("high")

\* line 157: delayMicroseconds(40)
Q_Delay40 ==
  /\ pc = "q_delay40"
  /\ Elapse(WakeHighUsec)
  /\ pc' = "q_input"
  /\ UNCHANGED << schedVars, gpioVars, parseVars, queryVars, byteVars,
                  waitVars, sensorVars, slows, histVars >>
  /\ Does("delay40")

\* mutant: the pinMode(GPIO, INPUT) of line 160 is missing
Q_PinInput_Forgotten ==
  /\ pc = "q_input"
  /\ caller' = "ack"
  /\ pc' = "w_start1"
  /\ UNCHANGED << clock, preempts, schedVars, gpioVars, parseVars, queryVars,
                  byteVars, timeUp, wret, sensorVars, slows, histVars >>
  /\ DoesAndWaits("input")

\* lines 160-163: pinMode(GPIO, INPUT), then the acknowledgement wait
Q_PinInput ==
  /\ pc = "q_input"
  /\ pinModeV' = "INPUT"
  /\ lineOut' = "NONE"
  /\ caller' = "ack"
  /\ pc' = "w_start1"
  /\ UNCHANGED << clock, preempts, schedVars, parseVars, queryVars, byteVars,
                  timeUp, wret, sensorVars, slows, histVars >>
  /\ DoesAndWaits("input")

\* mutant: the result of the acknowledgement wait is not tested
Q_AckRet_IgnoresFailure ==
  /\ pc = "q_ackret"
  /\ byte' = 0
  /\ pc' = "rb_begin"
  /\ Does(IF wret THEN "ack_ok" ELSE "ack_fail")
  /\ UNCHANGED << clock, preempts, schedVars, gpioVars, parseVars, then, took,
                  queryChecksum, retrievedBytes, qret, byteVars, waitVars,
                  sensorVars, slows, histVars >>

\* lines 163-168: a failed acknowledgement returns FALSE at once
Q_AckRet ==
  /\ pc = "q_ackret"
  /\ IF ~wret
     THEN /\ qret' = FALSE
          /\ exitPath' = "ack"
          /\ byte' = byte
          /\ pc' = "p_after"
     ELSE /\ qret' = qret
          /\ exitPath' = exitPath
          /\ byte' = 0
          /\ pc' = "rb_begin"
  /\ UNCHANGED << clock, preempts, schedVars, gpioVars, parseVars, then, took,
                  queryChecksum, retrievedBytes, byteVars, waitVars,
                  sensorVars, slows, nSessions, nCooldowns, waitFailed >>
  /\ Does(IF wret THEN "ack_ok" ELSE "ack_fail")

\* lines 169-178: store the byte, copy and sum the first four, next byte
Q_Store ==
  /\ pc = "q_store"
  /\ retrievedBytes' = [retrievedBytes EXCEPT ![byte] = rbret]
  /\ IF byte < 4
     THEN /\ sensorData' = [sensorData EXCEPT ![byte] = rbret]
          /\ queryChecksum' = AddChecksum(queryChecksum, rbret)
     ELSE /\ sensorData' = sensorData
          /\ queryChecksum' = queryChecksum
  /\ byte' = byte + 1
  /\ pc' = IF byte + 1 < 5 THEN "rb_begin" ELSE "q_now"
  /\ UNCHANGED << clock, preempts, schedVars, gpioVars, queryRetries, result,
                  then, took, qret, byteVars, waitVars, sensorVars, slows,
                  histVars >>
  /\ UNCHANGED traceVars

\* lines 181-187: mask the checksum, second timestamp, elapsed time
Q_Now ==
  /\ pc = "q_now"
  /\ Elapse(0)
  /\ queryChecksum' = queryChecksum % 256
  /\ took' = timersub(TV(clock'), then)
  /\ Sensor({mode}, 0)
  /\ pc' = "q_setdefault"
  /\ UNCHANGED << schedVars, gpioVars, parseVars, then, retrievedBytes, byte,
                  qret, byteVars, waitVars, slows, histVars >>
  /\ Does("elapsed")

\* line 190: setDefaultPriority()
Q_SetDefault ==
  /\ pc = "q_setdefault"
  /\ setDefaultPriority
  /\ pc' = "q_check"
  /\ UNCHANGED << clock, preempts, gpioVars, parseVars, queryVars, byteVars,
                  waitVars, sensorVars, slows, histVars >>
  /\ Does("restore")

\* lines 199-204: timing test, then the checksum comparison
Q_Check ==
  /\ pc = "q_check"
  /\ IF TookTooLong(took)
     THEN /\ qret' = FALSE
          /\ exitPath' = "time"
     ELSE /\ qret' = ChecksumMatches(queryChecksum, retrievedBytes)
          /\ exitPath' = IF ChecksumMatches(queryChecksum, retrievedBytes)
                         THEN "ok" ELSE "checksum"
  /\ pc' = "p_after"
  /\ UNCHANGED << clock, preempts, schedVars, gpioVars, parseVars, then, took,
                  queryChecksum, retrievedBytes, byte, byteVars, waitVars,
                  sensorVars, slows, nSessions, nCooldowns, waitFailed >>
  /\ Does("check")

(* ---------------------------------------------------------------------- *)
(* parseSensorOutput                                                      *)
(* ---------------------------------------------------------------------- *)
\* mutant: the result of wiringPiSetup is not tested
AfterSetup_Ignored(r) == "while"

\* lines 213-218: -1 from wiringPiSetup ends the process
AfterSetup(r) == IF r = 0 - 1 THEN "exit" ELSE "while"

\* lines 213-221: wiringPiSetup() may fail, which ends the process
P_Setup ==
  /\ pc = "setup"
  /\ \E r \in {0, 0 - 1} :
       /\ setupResult' = Append(setupResult, r)
       /\ pc' = AfterSetup(r)
  /\ queryRetries' = IF pc' = "while" THEN InitialRetries ELSE queryRetries
  /\ UNCHANGED << clock, preempts, schedVars, gpioVars, sensorData, result,
                  queryVars, byteVars, waitVars, sensorVars, slows, histVars,
                  ops, samples, nWaits >>

\* mutant: the memset of line 226 is missing
P_While_NoMemset ==
  /\ pc = "while"
  /\ queryRetries' = queryRetries - 1
  /\ pc' = IF queryRetries # 0 THEN "q_setmax" ELSE "na"
  /\ UNCHANGED << clock, preempts, schedVars, gpioVars, sensorData, result,
                  queryVars, byteVars, waitVars, sensorVars, slows, histVars >>
  /\ UNCHANGED traceVars

\* lines 224-229: while (queryRetries--), memset, call of querySensor
P_While ==
  /\ pc = "while"
  /\ queryRetries' = queryRetries - 1
  /\ IF queryRetries # 0
     THEN /\ sensorData' = ZeroData
          /\ pc' = "q_setmax"
     ELSE /\ sensorData' = sensorData
          /\ pc' = "na"
  /\ UNCHANGED << clock, preempts, schedVars, gpioVars, result, queryVars,
                  byteVars, waitVars, sensorVars, slows, histVars >>
  /\ UNCHANGED traceVars

\* the measurement parsed from the four payload bytes
Parsed(sd) ==
  [temperature |-> ParseTemperature(sd), humidity |-> ParseHumidity(sd)]

\* mutant: the delay of line 247 is skipped
AfterQuery_SkipsCooldown(ok, sd) ==
  IF ok /\ WithinCapabilities(ParseTemperature(sd), ParseHumidity(sd))
  THEN "done" ELSE "while"

\* mutant: the return of line 242 is missing
AfterQuery_NeverReturns(ok, sd) == "cooldown"

\* mutant: the range check of line 240 is missing
AfterQuery_NoRangeCheck(ok, sd) == IF ok THEN "done" ELSE "cooldown"

\* where control goes once querySensor has returned
AfterQuery(ok, sd) ==
  IF ok /\ WithinCapabilities(ParseTemperature(sd), ParseHumidity(sd))
  THEN "done" ELSE "cooldown"

\* lines 229-243: parse, range check, return; the locals of the finished
\* querySensor call go out of scope.  A parse that fails the range check is
\* never read again (the next write of result comes first), so result keeps
\* only the parse that is returned.
P_After ==
  /\ pc = "p_after"
  /\ result' = IF AfterQuery(qret, sensorData) = "done"
               THEN Parsed(sensorData) ELSE result
  /\ pc' = AfterQuery(qret, sensorData)
  /\ then' = ZeroTV
  /\ took' = ZeroTV
  /\ queryChecksum' = 0
  /\ retrievedBytes' = ZeroBytes
  /\ byte' = 0
  /\ qret' = FALSE
  /\ rbResult' = 0
  /\ bit' = 0
  /\ rbret' = 0
  /\ caller' = "none"
  /\ timeUp' = ZeroTV
  /\ wret' = FALSE
  /\ frame' = 1
  /\ sent' = 0
  /\ mode' = "ok"
  /\ slows' = 0
  /\ preempts' = 0
  /\ UNCHANGED << clock, schedVars, gpioVars, queryRetries, sensorData,
                  histVars >>
  /\ ops' = << >>
  /\ samples' = << >>
  /\ UNCHANGED << nWaits, setupResult >>

\* the first instant on the wake-up grid not before t
WakeUp(t) ==
  t + ((CooldownGridUsec - (t % CooldownGridUsec)) % CooldownGridUsec)

\* mutant: no delay after the last attempt
P_Cooldown_NotAfterLast ==
  /\ pc = "cooldown"
  /\ clock' = IF queryRetries = 0 THEN clock ELSE WakeUp(clock + CooldownUsec)
  /\ nCooldowns' = IF queryRetries = 0 THEN nCooldowns ELSE nCooldowns + 1
  /\ pc' = "while"
  /\ UNCHANGED << preempts, schedVars, gpioVars, parseVars, queryVars,
                  byteVars, waitVars, sensorVars, slows, nSessions, exitPath,
                  waitFailed >>
  /\ UNCHANGED traceVars

\* line 247: delay(2000)
P_Cooldown ==
  /\ pc = "cooldown"
  /\ clock' = WakeUp(clock + CooldownUsec)
  /\ nCooldowns' = nCooldowns + 1
  /\ pc' = "while"
  /\ UNCHANGED << preempts, schedVars, gpioVars, parseVars, queryVars,
                  byteVars, waitVars, sensorVars, slows, nSessions, exitPath,
                  waitFailed >>
  /\ UNCHANGED traceVars

\* lines 253-257: no measurement was valid
P_NotAvailable ==
  /\ pc = "na"
  /\ result' = [temperature |-> SENSOR_NA, humidity |-> SENSOR_NA]
  /\ pc' = "done"
  /\ UNCHANGED << clock, preempts, schedVars, gpioVars, queryRetries,
                  sensorData, queryVars, byteVars, waitVars, sensorVars,
                  slows, histVars >>
  /\ UNCHANGED traceVars

(* ---------------------------------------------------------------------- *)
(* Specification                                                          *)
(* ---------------------------------------------------------------------- *)
Next ==
  \/ P_Setup
  \/ P_While
  \/ Q_SetMax
  \/ Q_Then
  \/ Q_PinOutput
  \/ Q_WriteLow
  \/ Q_Delay10
  \/ Q_WriteHigh
  \/ Q_Delay40
  \/ Q_PinInput
  \/ W_Start1
  \/ W_Read1
  \/ W_Check1
  \/ W_Start2
  \/ W_Read2
  \/ W_Check2
  \/ Q_AckRet
  \/ RB_Begin
  \/ RB_Loop
  \/ RB_WaitRet
  \/ RB_Delay
  \/ RB_Sample
  \/ Q_Store
  \/ Q_Now
  \/ Q_SetDefault
  \/ Q_Check
  \/ P_After
  \/ P_Cooldown
  \/ P_NotAvailable

Spec == Init /\ [][Next]_vars

\* the process is scheduled again after every step and every delay: no
\* statement of the program blocks, and the wall clock keeps advancing
FairSpec == Spec /\ WF_vars(Next)

TypeOK ==
  /\ queryRetries \in -1..InitialRetries
  /\ nSessions \in 0..InitialRetries
  /\ \A i \in 0..3 : sensorData[i] \in 0..255
  /\ \A i \in 0..4 : retrievedBytes[i] \in 0..255
  /\ queryChecksum \in 0..255
  /\ schedPolicy \in {"OTHER", "FIFO"}
  /\ pinModeV \in {"INPUT", "OUTPUT"}

(* ---------------------------------------------------------------------- *)
(* Properties                                                             *)
(* ---------------------------------------------------------------------- *)
\* parseSensorOutput has returned
Returned == pc = "done"

\* querySensor has just returned to parseSensorOutput
QueryReturned == pc = "p_after"

NotAvailable == [temperature |-> SENSOR_NA, humidity |-> SENSOR_NA]

\* the documented ranges, in tenths: -40.0 .. +80.0 degrees, 0.0 .. 100.0 %
DocumentedTemperatures == (0 - 400)..800
DocumentedHumidities == 0..1000

InDocumentedRanges(t, h) ==
  t \in DocumentedTemperatures /\ h \in DocumentedHumidities

\* C1: the value parseSensorOutput returns is either the sentinel in both
\* fields, or a temperature in [-40.0, 80.0] with a humidity in [0.0, 100.0];
\* never a sentinel beside a value, never a value outside its range.
C1_ResultShape ==
  Returned =>
    \/ result = NotAvailable
    \/ /\ result.temperature # SENSOR_NA
       /\ result.humidity # SENSOR_NA
       /\ InDocumentedRanges(result.temperature, result.humidity)

\* a measurement at the upper end of both ranges has been returned
C1_Witness ==
  Returned /\ result = [temperature |-> 800, humidity |-> 1000]

\* C2: one call runs at most 5 sessions, and when the fifth session fails
\* (acknowledgement, elapsed time or checksum) the call returns the sentinel
\* in both fields.
C2_AtMostFiveSessions ==
  /\ nSessions <= 5
  /\ (Returned /\ nSessions = 5 /\ exitPath \in {"ack", "time", "checksum"})
       => result = NotAvailable

\* five sessions, the last one failing on its checksum, then the sentinel
C2_Witness ==
  Returned /\ nSessions = 5 /\ exitPath = "checksum" /\ result = NotAvailable

\* C3 (as claimed): whenever querySensor has returned, and during the
\* cooldown and after parseSensorOutput has returned, the thread is back at
\* the default policy with priority 0.
C3_PriorityRestored ==
  pc \in {"p_after", "cooldown", "done"} =>
    schedPolicy = "OTHER" /\ schedPriority = 0

\* C4 (as claimed): a session in which a transition wait timed out does not
\* report success.
C4_TimeoutFailsSession ==
  (QueryReturned /\ waitFailed) => ~qret

\* the elapsed time as the claim words it
ElapsedTooLong == took.sec # 0 \/ took.usec > 16000

\* the fifth byte equals the sum of the first four modulo 256
SumMatches ==
  (retrievedBytes[0] + retrievedBytes[1] + retrievedBytes[2]
     + retrievedBytes[3]) % 256 = retrievedBytes[4]

\* C5: a session whose elapsed time has a non-zero seconds component, or more
\* than 16000 microseconds, fails whether or not its checksum matches.
C5_SlowSessionFails ==
  (QueryReturned /\ exitPath # "ack" /\ ElapsedTooLong) => ~qret

\* a session with a matching checksum rejected for taking 16 ms or more
C5_Witness ==
  /\ QueryReturned
  /\ exitPath = "time"
  /\ took.sec = 0
  /\ took.usec > 16000
  /\ SumMatches
  /\ retrievedBytes[0] = 2
  /\ ~qret

\* C6: after a successful acknowledgement and an acceptable elapsed time,
\* querySensor reports success exactly when the sum of the first four bytes
\* modulo 256 equals the fifth.
C6_SuccessIffChecksum ==
  (QueryReturned /\ exitPath # "ack" /\ ~ElapsedTooLong) =>
    (qret <=> SumMatches)

\* accepted with a sum of 279, which wraps to the checksum byte 23
C6_Witness ==
  /\ QueryReturned
  /\ ~ElapsedTooLong
  /\ qret
  /\ retrievedBytes[0] + retrievedBytes[1] + retrievedBytes[2]
       + retrievedBytes[3] = 279
  /\ retrievedBytes[4] = 23

\* C7 (as claimed): after a successful session whose byte[2] has bit 0x80
\* set, the decoded temperature is minus ((byte[2] without bit 0x80) * 256 +
\* byte[3]) tenths.
C7_NegativeTemperature ==
  (QueryReturned /\ qret /\ SignBitSet(sensorData[2])) =>
    ParseTemperature(sensorData)
      = 0 - ((sensorData[2] % 128) * 256 + sensorData[3])

\* C8: with the sign bit clear a returned measurement is byte[2]*256+byte[3]
\* tenths of a degree and byte[0]*256+byte[1] tenths of a percent; the bytes
\* 02 8C 01 08 97 are returned as 26.4 and 65.2, and a raw 200 as 20.0.
C8_PositiveDecode ==
  /\ (Returned /\ result # NotAvailable /\ ~SignBitSet(sensorData[2])) =>
       /\ result.temperature = sensorData[2] * 256 + sensorData[3]
       /\ result.humidity = sensorData[0] * 256 + sensorData[1]
  /\ (Returned /\ exitPath = "ok"
        /\ sensorData = (0 :> 2 @@ 1 :> 140 @@ 2 :> 1 @@ 3 :> 8)) =>
       result = [temperature |-> 264, humidity |-> 652]
  /\ (Returned /\ exitPath = "ok"
        /\ sensorData = (0 :> 0 @@ 1 :> 200 @@ 2 :> 0 @@ 3 :> 200)) =>
       result = [temperature |-> 200, humidity |-> 200]

\* the bytes 02 8C 01 08 have been returned as 26.4 degrees and 65.2 %
C8_Witness ==
  /\ Returned
  /\ sensorData = (0 :> 2 @@ 1 :> 140 @@ 2 :> 1 @@ 3 :> 8)
  /\ result = [temperature |-> 264, humidity |-> 652]

\* C9: once a session has succeeded with both values in range, the next step
\* returns that measurement, with no further session and no cooldown; and
\* nothing happens after the return.
C9_ReturnsAtOnce ==
  [][/\ (QueryReturned /\ qret
           /\ InDocumentedRanges(ParseTemperature(sensorData),
                                 ParseHumidity(sensorData))) =>
          /\ pc' = "done"
          /\ result' = Parsed(sensorData)
          /\ nSessions' = nSessions
          /\ nCooldowns' = nCooldowns
     /\ Returned => (pc' = "done" /\ nSessions' = nSessions
                       /\ nCooldowns' = nCooldowns)]_vars

\* a measurement returned from the fifth attempt, after four cooldowns
C9_Witness ==
  /\ Returned
  /\ result # NotAvailable
  /\ exitPath = "ok"
  /\ nSessions = 5
  /\ nCooldowns = 4

C11_CooldownBetweenAttempts ==
  [][/\ (nSessions' # nSessions) =>
          /\ nSessions' = nSessions + 1
          /\ nCooldowns = nSessions
     /\ (nCooldowns' # nCooldowns) =>
          /\ pc = "cooldown"
          /\ ops = << >>
          /\ nCooldowns' = nCooldowns + 1
          /\ nCooldowns = nSessions - 1
          /\ clock' >= clock + 2000000
          /\ ~(exitPath = "ok"
                 /\ InDocumentedRanges(ParseTemperature(sensorData),
                                       ParseHumidity(sensorData)))]_vars

\* the third session is sampling bits, two cooldowns after the first began
C11_Witness ==
  pc = "rb_sample" /\ nSessions = 3 /\ nCooldowns = 2

\* C12: when wiringPiSetup reports failure no session is ever started, the
\* scheduling policy and the pin are left as they were, there is no
\* cooldown, and the process ends instead of returning.
C12_SetupFailureIsFatal ==
  (setupResult = << 0 - 1 >>) =>
    /\ pc = "exit"
    /\ nSessions = 0
    /\ nCooldowns = 0
    /\ nWaits = 0
    /\ ops = << >>
    /\ schedPolicy = "OTHER"
    /\ schedPriority = 0
    /\ pinModeV = "INPUT"
    /\ lineOut = "NONE"
    /\ result = UnsetResult

\* the process has ended on a failed wiringPiSetup
C12_Witness ==
  pc = "exit" /\ setupResult = << 0 - 1 >>

\* s is an initial part of t
IsPrefix(s, t) == Len(s) <= Len(t) /\ SubSeq(t, 1, Len(s)) = s

\* the steps of a session up to the acknowledgement wait
WakeOrder ==
  << "elevate", "timestamp", "output", "low", "delay10", "high", "delay40",
     "input" >>

\* a whole session whose acknowledgement wait succeeded
SessionOrder ==
  WakeOrder \o << "ack_ok", "byte0", "byte1", "byte2", "byte3", "byte4",
                  "elapsed", "restore", "check" >>

\* positions at which digitalRead is called
ReadSteps == {"w_read1", "w_read2", "rb_sample"}

\* positions inside retrieveByte
ByteSteps == {"rb_begin", "rb_loop", "rb_waitret", "rb_delay", "rb_sample"}

\* C13: a session elevates the priority, takes the start timestamp, sets the
\* pin to output, drives it low for 10 ms and high for 40 us, sets the pin
\* to input, waits for the acknowledgement and only then samples the bytes
\* 0 to 4 in order; no level is read before the pin is an input and no byte
\* is sampled before the acknowledgement wait succeeded.
C13_SessionOrder ==
  /\ IsPrefix(ops, SessionOrder) \/ ops = WakeOrder \o << "ack_fail" >>
  /\ pc \in ReadSteps => (pinModeV = "INPUT" /\ IsPrefix(WakeOrder, ops))
  /\ (pc \in ByteSteps \/ (pc \in ReadSteps /\ caller = "bit")) =>
       IsPrefix(WakeOrder \o << "ack_ok" >>, ops)
  /\ pc \in (ByteSteps \ {"rb_begin"}) => ops[Len(ops)] = ByteOp(byte)

\* the last bit of byte 4 is about to be sampled
C13_Witness ==
  /\ pc = "rb_sample"
  /\ bit = 7
  /\ ops = WakeOrder \o << "ack_ok", "byte0", "byte1", "byte2", "byte3",
                           "byte4" >>

\* the acknowledgement wait of this session returned failure
AckFailed == Len(ops) > Len(WakeOrder) /\ ops[Len(WakeOrder) + 1] = "ack_fail"

\* C14: when the acknowledgement wait fails the session fails at once: no
\* byte is sampled, neither the elapsed time nor the checksum is evaluated,
\* and the caller's four bytes stay as cleared before the attempt.
C14_AckFailureIsImmediate ==
  AckFailed =>
    /\ QueryReturned
    /\ ~qret
    /\ ops = WakeOrder \o << "ack_fail" >>
    /\ nWaits = 1
    /\ samples = << >>
    /\ took = ZeroTV
    /\ queryChecksum = 0
    /\ sensorData = ZeroData

\* querySensor has returned from a failed acknowledgement wait
C14_Witness ==
  QueryReturned /\ AckFailed /\ waitFailed /\ ~qret

\* C15 (as claimed): sensorLowHighWait leaves its first loop only on a read
\* made within 1 ms of the start of the first sub-wait, and returns success
\* only on a read made within 1 ms of the start of the second, also when the
\* thread is preempted between a clock check and the next read.
C15_WaitWithinDeadlines ==
  [][/\ (pc = "w_read1" /\ pc' = "w_start2") =>
          ~timercmpGT(TV(clock'), timeUp)
     /\ (pc = "w_read2" /\ pc' # "w_check2") =>
          (wret' => ~timercmpGT(TV(clock'), timeUp))]_vars

\* the value of the bit sampled k-th (k = 1..8) when the first is the most
\* significant
BitWeight(s, k) == IF s[k] = "HIGH" THEN 2 ^ (8 - k) ELSE 0

\* the byte whose bits, most significant first, are the levels of s
MsbFirst(s) ==
  BitWeight(s, 1) + BitWeight(s, 2) + BitWeight(s, 3) + BitWeight(s, 4)
  + BitWeight(s, 5) + BitWeight(s, 6) + BitWeight(s, 7) + BitWeight(s, 8)

\* C16: when retrieveByte returns, either all eight bit waits succeeded and
\* the byte is the eight sampled levels packed most significant bit first,
\* or the wait for bit k (k < 8) failed, nothing was sampled after the k
\* levels taken before it, and the byte is 0.  One level is sampled per bit.
C16_ByteMsbFirstOrZero ==
  /\ pc \in {"rb_loop", "rb_waitret", "rb_delay", "rb_sample"} =>
       Len(samples) = bit
  /\ pc = "q_store" =>
       IF wret
       THEN /\ Len(samples) = 8
            /\ bit = 8
            /\ rbret = MsbFirst(samples)
       ELSE /\ bit < 8
            /\ Len(samples) = bit
            /\ rbret = 0

\* a byte of mixed bits (140 = 10001100b) has been assembled
C16_Witness ==
  /\ pc = "q_store"
  /\ wret
  /\ samples = << "HIGH", "LOW", "LOW", "LOW", "HIGH", "HIGH", "LOW", "LOW" >>
  /\ rbret = 140

\* the payload buffer holds exactly the bytes this session has stored so far
BufferOfThisSession ==
  \A i \in 0..3 : sensorData[i] = IF i < byte THEN retrievedBytes[i] ELSE 0

\* C17: the payload buffer is all zero when a session starts and until its
\* first byte is stored, it only ever holds bytes retrieved by the session in
\* progress, and a returned measurement is the parse of the buffer left by the
\* session that validated it.
C17_FreshBufferPerSession ==
  /\ pc = "q_setmax" => sensorData = ZeroData
  /\ ops # << >> => BufferOfThisSession
  /\ (QueryReturned /\ qret) =>
       /\ byte = 5
       /\ \A i \in 0..3 : sensorData[i] = retrievedBytes[i]
  /\ (Returned /\ result # NotAvailable) => result = Parsed(sensorData)

\* a second session returns 20.0 / 20.0 after a first one failed
C17_Witness ==
  /\ Returned
  /\ nSessions = 2
  /\ sensorData = [i \in 0..3 |-> IF i % 2 = 1 THEN 200 ELSE 0]
  /\ result = [temperature |-> 200, humidity |-> 200]

\* the most waits one session makes: the acknowledgement and 5 * 8 bits
MaxWaitsPerSession == 1 + 5 * 8

\* C18: with the clock advancing and the process scheduled, a session makes
\* at most 1 acknowledgement wait and 40 bit waits (8 for each byte begun, one
\* of them possibly still in progress), at most 5 sessions are
\* run, every wait that has started returns to its caller, and once
\* wiringPiSetup has succeeded parseSensorOutput returns, with a measurement
\* or with the sentinel.
C18_Terminates ==
  /\ [](/\ nWaits <= MaxWaitsPerSession
        /\ nSessions <= QUERYRETRIES + 1
        /\ ops # << >> => (bit <= 8 /\ nWaits <= 1 + 8 * byte + bit + 1))
  /\ (pc \in {"w_start1", "w_read1", "w_check1", "w_start2", "w_read2",
              "w_check2"}) ~> (pc \in {"q_ackret", "rb_waitret"})
  /\ (setupResult = << 0 >>) ~> (Returned /\ nSessions <= QUERYRETRIES + 1)

\* the sentinel is returned after five sessions, the last with all 41 waits
C18_Witness ==
  /\ Returned
  /\ setupResult = << 0 >>
  /\ nSessions = 5
  /\ nWaits = MaxWaitsPerSession
  /\ result = NotAvailable

\* C19: one cooldown is taken for each attempt that did not end in a returned
\* measurement, the last attempt included: the sentinel is returned after 5
\* sessions and 5 cooldowns, a measurement after n sessions and n - 1
\* cooldowns; the sentinel path is entered only after the fifth cooldown.
C19_CooldownPerFailedAttempt ==
  /\ (Returned /\ result = NotAvailable) =>
       (nSessions = QUERYRETRIES + 1 /\ nCooldowns = QUERYRETRIES + 1)
  /\ (Returned /\ result # NotAvailable) => nCooldowns = nSessions - 1
  /\ pc = "na" => (nSessions = 5 /\ nCooldowns = 5)
  /\ pc = "cooldown" => nCooldowns = nSessions - 1
  /\ pc = "while" => nCooldowns = nSessions

\* the sentinel has been returned; the fifth session got no acknowledgement
C19_Witness ==
  /\ Returned
  /\ result = NotAvailable
  /\ nCooldowns = 5
  /\ exitPath = "ack"

\* from pinMode(OUTPUT) to the end of the 40 us high pulse
WakeSteps == {"q_low", "q_delay10", "q_high", "q_delay40", "q_input"}

\* C20: the pin is in output mode only from the start of the wake sequence to
\* the end of the 40 us high pulse; whenever querySensor has returned, on
\* each of its four exit paths, and from then on through the cooldown and
\* after parseSensorOutput has returned, the pin is in input mode and the
\* host does not drive the line.
C20_PinReleased ==
  /\ pinModeV = "OUTPUT" <=> pc \in WakeSteps
  /\ lineOut # "NONE" => pc \in WakeSteps
  /\ QueryReturned =>
       /\ exitPath \in {"ack", "time", "checksum", "ok"}
       /\ pinModeV = "INPUT"
  /\ pc \in {"cooldown", "while", "na", "done"} => pinModeV = "INPUT"

\* querySensor has returned through the elapsed-time failure
C20_Witness ==
  /\ QueryReturned
  /\ exitPath = "time"
  /\ pinModeV = "INPUT"
  /\ lineOut = "NONE"

====
